---- MODULE Spec2Model ----
(***************************************************************************)
(* The sentinel-based circular doubly linked list of src/src/sixth:        *)
(* LinkedList (mod.rs), NodePtr (node.rs) and RawCursor (cursor.rs), over  *)
(* an explicit heap of nodes.                                              *)
(*                                                                         *)
(* The heap maps every allocation to a node record; a NodePtr is the       *)
(* identity of the allocation it was made from.  Deallocating a node marks *)
(* it dead.  A pointer to a dead allocation stays dangling even when the   *)
(* allocator hands the same address out again, so an identity is given to  *)
(* a new allocation only when no pointer to it is stored any more.  The    *)
(* code compares pointers only against the sentinel, which is allocated    *)
(* before and freed after every other node, so no comparison can tell an   *)
(* identity from an address.                                               *)
(*                                                                         *)
(* An operation that dereferences a dead node executes undefined           *)
(* behaviour: the kind is recorded in ub, a value read from the dead node  *)
(* is any value of its type, and the run is not followed any further.      *)
(***************************************************************************)
EXTENDS Integers, Sequences, FiniteSets, TLC

\* ---------------------------------------------------------------- bounds
\* Number of heap addresses (sentinel included).
MaxNodes == 4
\* Number of distinct payload values.
NItems == 2
\* Number of views and references that can be live at a time.
MaxRefs == 2

\* ------------------------------------------------------------- constants
\* Width of usize in bits.
UsizeBits == 64
\* NonNull::dangling(): an address that is never allocated.
dangling == 0
\* Option::None for an Option<NodePtr<T>>.
NoneP == 0 - 1
\* Option::None for an Option<T> result.
NoneT == 0
\* The result of an operation that returns ().
Unit == 0 - 1
\* MaybeUninit::uninit(), the payload slot of the sentinel.
Uninit == 0 - 2

Addr == 1 .. MaxNodes
Items == 1 .. NItems

UafRead == "uaf_read"
UafWrite == "uaf_write"
DoubleFree == "double_free"

VARIABLES
    heap,     \* Addr -> Node: the allocator's memory
    dummy,    \* LinkedList.dummy : Option<NodePtr>
    len,      \* LinkedList.len
    live,     \* TRUE while a CursorMut borrows the list
    node,     \* RawCursor.node : Option<NodePtr>
    index,    \* RawCursor.index
    dropped,  \* TRUE once Drop::drop has run
    ub,       \* kinds of undefined behaviour executed so far
    iter,     \* the Iter, IterMut, DrainFilter or IntoIter made from the list
    hist,     \* what the list held when iter was made, what iter has yielded
    other,    \* the LinkedList returned by slice_off_as_list, until dropped
    nodes,    \* Addr -> fifth::Node: the memory of the fifth::List
    inner,    \* fifth::List.inner : Option<Inner { head, tail }>
    refs,     \* the references and views into the list that are in scope
    op,       \* the operation performed last
    arg,      \* its payload argument (NoneT when it takes none)
    ret       \* its result

\* The state apart from the sixth::LinkedList: the fifth::List and the
\* borrows the compiler tracks.
apart == <<nodes, inner, refs>>

\* The state outside the list, its heap and its cursor.
aux == <<iter, hist, other, apart>>

vars == <<heap, dummy, len, live, node, index, dropped, ub, op, arg, ret, aux>>

\* ------------------------------------------------------------ node layer
\* struct Node { prev, next, item }, plus the allocator's liveness bit.
Node(p, i, n) == [alive |-> TRUE, prev |-> p, next |-> n, item |-> i]

\* The content of a freed block.
DeadNode == [alive |-> FALSE, prev |-> dangling, next |-> dangling, item |-> Uninit]

Alive(h, p) == p \in Addr /\ h[p].alive

\* The identities no pointer of the list, of a live node or of the cursor
\* holds any more.
Free(s) ==
    {a \in Addr :
        /\ ~s.h[a].alive
        /\ a # s.dummy
        /\ a # node
        /\ \A b \in Addr : s.h[b].alive => (s.h[b].prev # a /\ s.h[b].next # a)}

\* The identity Box::new returns in list state s.  The code only compares
\* pointers for equality, so that which free identity a new node gets makes
\* no difference: it gets the least.  No identity is left when the heap is
\* full.
Fresh(s) ==
    IF Free(s) = {} THEN {}
    ELSE {CHOOSE a \in Free(s) : \A b \in Free(s) : a <= b}

\* The list together with the memory it lives in, threaded through the
\* primitives of node.rs.
St(h, d, l, u) == [h |-> h, dummy |-> d, len |-> l, ub |-> u]

Flag(s, kind) == [s EXCEPT !.ub = @ \cup {kind}]

\* A length that is never raised.
saturating_add_bug(a, b) == a

\* usize::saturating_add; the saturation point 2^UsizeBits - 1 lies beyond
\* every length MaxNodes admits.
saturating_add(a, b) == a + b

saturating_sub(a, b) == IF a >= b THEN a - b ELSE 0

\* Box::new at address a, which the allocator picked among the free ones.
raw_alloc(s, a, p, i, n) == [s EXCEPT !.h[a] = Node(p, i, n)]

\* alloc with the two links exchanged.
alloc_bug(s, a, p, i, n) == raw_alloc(s, a, n, i, p)

alloc(s, a, p, i, n) == raw_alloc(s, a, p, i, n)

alloc_dangling(s, a, i) == alloc(s, a, dangling, i, dangling)

set_prev(s, p, q) ==
    IF Alive(s.h, p) THEN [s EXCEPT !.h[p].prev = q] ELSE Flag(s, UafWrite)

set_next(s, p, q) ==
    IF Alive(s.h, p) THEN [s EXCEPT !.h[p].next = q] ELSE Flag(s, UafWrite)

\* link without the back pointer.
link_bug(s, p, q) == set_next(s, p, q)

link(s, p, q) == set_prev(set_next(s, p, q), q, p)

\* NodePtr::dummy(): a node with no payload, linked to itself.
NodePtr_dummy(s, a) ==
    set_next(set_prev(raw_alloc(s, a, dangling, Uninit, dangling), a, a), a, a)

is_dummy(p, s) == s.dummy # NoneP /\ p = s.dummy

\* What a read of *p can produce: the node when it is alive, any bit
\* pattern of a node when it has been freed.
Deref(h, p) ==
    IF Alive(h, p) THEN {h[p]}
    ELSE {Node(gp, gi, gn) : gp \in Addr, gi \in Items, gn \in Addr}

\* The state after a read of *p.
Touch(s, p) == IF Alive(s.h, p) THEN s ELSE Flag(s, UafRead)

\* Box::from_raw(p) dropped: the block goes back to the allocator.
dealloc_raw(s, p) ==
    IF Alive(s.h, p) THEN [s EXCEPT !.h[p] = DeadNode] ELSE Flag(s, DoubleFree)

\* splice_after that reads self.next only after self has been linked to the
\* run.
splice_after_bug(s, self, front, back, n, g) ==
    [link(link(Touch(s, self), self, front), back, front)
        EXCEPT !.len = saturating_add(s.len, n)]

splice_after(s, self, front, back, n, g) ==
    LET next == g.next IN
    [link(link(Touch(s, self), self, front), back, next)
        EXCEPT !.len = saturating_add(s.len, n)]

splice_before(s, self, front, back, n, g) ==
    LET prev == g.prev IN
    [link(link(Touch(s, self), prev, front), back, self)
        EXCEPT !.len = saturating_add(s.len, n)]

\* The outcomes of NodePtr::insert_after(self, item, list) when the new
\* node is allocated at a: one per value the read of self.next can produce.
NodePtr_insert_after(s, self, a, item) ==
    LET s1 == alloc_dangling(s, a, item) IN
    {splice_after(s1, self, a, a, 1, g) : g \in Deref(s1.h, self)}

NodePtr_insert_before(s, self, a, item) ==
    LET s1 == alloc_dangling(s, a, item) IN
    {splice_before(s1, self, a, a, 1, g) : g \in Deref(s1.h, self)}

\* pop_unchecked that unlinks the node and keeps its block.
pop_unchecked_bug(s, self, g) ==
    LET s1 == link(Touch(s, self), g.prev, g.next)
    IN  [s1 EXCEPT !.len = saturating_sub(s1.len, 1)]

\* NodePtr::slice_off(front, back, 1, list) consumed by next().unwrap():
\* unlink the node, lower len, free the node.  g is the content of *self.
pop_unchecked(s, self, g) ==
    LET s1 == link(Touch(s, self), g.prev, g.next)
        s2 == [s1 EXCEPT !.len = saturating_sub(s1.len, 1)]
    IN  dealloc_raw(s2, self)

\* ------------------------------------------------------------ list facade
\* LinkedList::init: get_or_insert_with(NodePtr::dummy) at address a.
list_init(s, a) ==
    IF s.dummy = NoneP THEN [NodePtr_dummy(s, a) EXCEPT !.dummy = a] ELSE s

\* The addresses init may return: the stored sentinel, or a fresh block.
InitAddr(s) == IF s.dummy = NoneP THEN Fresh(s) ELSE {s.dummy}

Cur == St(heap, dummy, len, ub)

\* The program runs: the list exists, nothing undefined has happened.
Running == ~dropped /\ ub = {}

\* The list may be used: no iterator borrows or owns it.
Usable == Running /\ iter.kind = "none"

Commit(s, o, a, r) ==
    /\ heap' = s.h
    /\ dummy' = s.dummy
    /\ len' = s.len
    /\ ub' = s.ub
    /\ op' = o
    /\ arg' = a
    /\ ret' = r

push_front(elem) ==
    /\ Usable /\ ~live
    /\ \E d \in InitAddr(Cur) :
         LET s1 == list_init(Cur, d)
             head == s1.h[d].next
         IN  \E a \in Fresh(s1) :
               LET s2 == alloc(s1, a, d, elem, head)
                   s3 == set_prev(s2, head, a)
                   s4 == set_next(s3, d, a)
                   s5 == [s4 EXCEPT !.len = saturating_add(s4.len, 1)]
               IN  Commit(s5, "push_front", elem, Unit)
    /\ UNCHANGED <<live, node, index, dropped>>
    /\ UNCHANGED aux

push_back(elem) ==
    /\ Usable /\ ~live
    /\ \E d \in InitAddr(Cur) :
         LET s1 == list_init(Cur, d)
             tail == s1.h[d].prev
         IN  \E a \in Fresh(s1) :
               LET s2 == alloc(s1, a, tail, elem, d)
                   s3 == set_next(s2, tail, a)
                   s4 == set_prev(s3, d, a)
                   s5 == [s4 EXCEPT !.len = saturating_add(s4.len, 1)]
               IN  Commit(s5, "push_back", elem, Unit)
    /\ UNCHANGED <<live, node, index, dropped>>
    /\ UNCHANGED aux

pop_front ==
    /\ Usable /\ ~live
    /\ IF dummy = NoneP \/ is_dummy(heap[dummy].next, Cur)
       THEN Commit(Cur, "pop_front", NoneT, NoneT)
       ELSE LET p == heap[dummy].next IN
            \E g \in Deref(heap, p) :
              LET s1 == dealloc_raw(Cur, p)
                  s2 == set_next(s1, dummy, g.next)
                  s3 == set_prev(s2, g.next, dummy)
                  s4 == [s3 EXCEPT !.len = saturating_sub(s3.len, 1)]
              IN  Commit(s4, "pop_front", NoneT, g.item)
    /\ UNCHANGED <<live, node, index, dropped>>
    /\ UNCHANGED aux

pop_back ==
    /\ Usable /\ ~live
    /\ IF dummy = NoneP \/ is_dummy(heap[dummy].prev, Cur)
       THEN Commit(Cur, "pop_back", NoneT, NoneT)
       ELSE LET p == heap[dummy].prev IN
            \E g \in Deref(heap, p) :
              LET s1 == dealloc_raw(Cur, p)
                  s2 == set_prev(s1, dummy, g.prev)
                  s3 == set_next(s2, g.prev, dummy)
                  s4 == [s3 EXCEPT !.len = saturating_sub(s3.len, 1)]
              IN  Commit(s4, "pop_back", NoneT, g.item)
    /\ UNCHANGED <<live, node, index, dropped>>
    /\ UNCHANGED aux

\* NodePtr::get(list) followed by the caller's read of the payload:
\* None at the sentinel, else the payload slot of *p.
get(s, p, o) ==
    IF is_dummy(p, s)
    THEN Commit(s, o, NoneT, NoneT)
    ELSE \E g \in Deref(s.h, p) : Commit(Touch(s, p), o, NoneT, g.item)

front ==
    /\ Usable /\ ~live
    /\ IF dummy = NoneP
       THEN Commit(Cur, "front", NoneT, NoneT)
       ELSE get(Cur, heap[dummy].next, "front")
    /\ UNCHANGED <<live, node, index, dropped>>
    /\ UNCHANGED aux

back ==
    /\ Usable /\ ~live
    /\ IF dummy = NoneP
       THEN Commit(Cur, "back", NoneT, NoneT)
       ELSE get(Cur, heap[dummy].prev, "back")
    /\ UNCHANGED <<live, node, index, dropped>>
    /\ UNCHANGED aux

\* The loop of LinkedList::clear from ptr on: the states it can end in.
\* A live node is freed and its next link followed.  Freeing a dead node
\* is a double free: the process may stop there, or go on with whatever
\* the freed block holds in place of next -- the sentinel (the loop ends)
\* or a node that is still live (the loop continues from it).
RECURSIVE clear_loop(_, _)
clear_loop(s, ptr) ==
    IF ptr = s.dummy THEN {s}
    ELSE IF Alive(s.h, ptr) THEN clear_loop(dealloc_raw(s, ptr), s.h[ptr].next)
    ELSE LET s1 == dealloc_raw(s, ptr) IN
         {s1} \cup UNION {clear_loop(s1, g) :
                            g \in {a \in Addr : Alive(s1.h, a) /\ a # s1.dummy}}

\* clear that frees the sentinel with the elements.
list_clear_bug(s) ==
    IF s.dummy = NoneP THEN {s}
    ELSE {dealloc_raw(s1, s1.dummy) : s1 \in clear_loop(s, s.h[s.dummy].next)}

\* LinkedList::clear: the states it can end in.
list_clear(s) ==
    IF s.dummy = NoneP THEN {s} ELSE clear_loop(s, s.h[s.dummy].next)

clear ==
    /\ Usable /\ ~live
    /\ \E s \in list_clear(Cur) : Commit(s, "clear", NoneT, Unit)
    /\ UNCHANGED <<live, node, index, dropped>>
    /\ UNCHANGED aux

\* Drop::drop: clear, then free the sentinel if there is one.  When clear
\* executed a double free the process may have stopped before that.
list_drop(s) ==
    UNION {IF s1.dummy = NoneP THEN {s1}
           ELSE IF s1.ub = {} THEN {dealloc_raw(s1, s1.dummy)}
           ELSE {s1, dealloc_raw(s1, s1.dummy)} : s1 \in list_clear(s)}

drop ==
    /\ Usable /\ ~live
    /\ \E s \in list_drop(Cur) : Commit(s, "drop", NoneT, Unit)
    /\ dropped' = TRUE
    /\ UNCHANGED <<live, node, index>>
    /\ UNCHANGED aux

\* ----------------------------------------------------------- cursor layer
\* 2^bits modulo m, by repeated doubling.
RECURSIVE Pow2Mod(_, _)
Pow2Mod(bits, m) == IF bits = 0 THEN 1 % m ELSE (2 * Pow2Mod(bits - 1, m)) % m

\* RawCursor::set_index against a list of length l.
set_index(i, l) == IF i > l THEN i % (l + 1) ELSE i

\* RawCursor::index_add: set_index(index.wrapping_add(inc)); the sum stays
\* below 2^UsizeBits for every index and length MaxNodes admits.
index_add(i, inc, l) == set_index(i + inc, l)

\* RawCursor::index_sub: set_index(index.wrapping_sub(dec)).  When dec > i
\* the difference wraps to 2^UsizeBits - (dec - i), which exceeds l, so
\* set_index reduces it modulo l + 1.
index_sub(i, dec, l) ==
    IF i >= dec
    THEN set_index(i - dec, l)
    ELSE (Pow2Mod(UsizeBits, l + 1) + (l + 1) - ((dec - i) % (l + 1))) % (l + 1)

\* RawCursor::index: None (NoneP) when the stored index equals len.
cursor_index == IF index # len THEN index ELSE NoneP

\* RawCursor::new, reached through a view that borrows the list.
cursor_new ==
    /\ Usable /\ ~live
    /\ live' = TRUE
    /\ node' = dummy
    /\ index' = len
    /\ Commit(Cur, "cursor_new", NoneT, Unit)
    /\ UNCHANGED dropped
    /\ UNCHANGED aux

\* The view goes out of scope and the borrow ends.
cursor_release ==
    /\ Usable /\ live
    /\ live' = FALSE
    /\ node' = NoneP
    /\ index' = 0
    /\ Commit(Cur, "cursor_release", NoneT, Unit)
    /\ UNCHANGED dropped
    /\ UNCHANGED aux

\* move_next that follows prev.
move_next_bug ==
    /\ Usable /\ live
    /\ IF node = NoneP
       THEN /\ Commit(Cur, "move_next", NoneT, Unit)
            /\ UNCHANGED <<node, index>>
       ELSE \E g \in Deref(heap, node) :
              /\ node' = g.prev
              /\ index' = index_add(index, 1, len)
              /\ Commit(Touch(Cur, node), "move_next", NoneT, Unit)
    /\ UNCHANGED <<live, dropped>>
    /\ UNCHANGED aux

move_next ==
    /\ Usable /\ live
    /\ IF node = NoneP
       THEN /\ Commit(Cur, "move_next", NoneT, Unit)
            /\ UNCHANGED <<node, index>>
       ELSE \E g \in Deref(heap, node) :
              /\ node' = g.next
              /\ index' = index_add(index, 1, len)
              /\ Commit(Touch(Cur, node), "move_next", NoneT, Unit)
    /\ UNCHANGED <<live, dropped>>
    /\ UNCHANGED aux

move_prev ==
    /\ Usable /\ live
    /\ IF node = NoneP
       THEN /\ Commit(Cur, "move_prev", NoneT, Unit)
            /\ UNCHANGED <<node, index>>
       ELSE \E g \in Deref(heap, node) :
              /\ node' = g.prev
              /\ index' = index_sub(index, 1, len)
              /\ Commit(Touch(Cur, node), "move_prev", NoneT, Unit)
    /\ UNCHANGED <<live, dropped>>
    /\ UNCHANGED aux

current ==
    /\ Usable /\ live
    /\ IF node = NoneP
       THEN Commit(Cur, "current", NoneT, NoneT)
       ELSE get(Cur, node, "current")
    /\ UNCHANGED <<live, node, index, dropped>>
    /\ UNCHANGED aux

peek_next ==
    /\ Usable /\ live
    /\ IF node = NoneP
       THEN Commit(Cur, "peek_next", NoneT, NoneT)
       ELSE \E g \in Deref(heap, node) : get(Touch(Cur, node), g.next, "peek_next")
    /\ UNCHANGED <<live, node, index, dropped>>
    /\ UNCHANGED aux

peek_prev ==
    /\ Usable /\ live
    /\ IF node = NoneP
       THEN Commit(Cur, "peek_prev", NoneT, NoneT)
       ELSE \E g \in Deref(heap, node) : get(Touch(Cur, node), g.prev, "peek_prev")
    /\ UNCHANGED <<live, node, index, dropped>>
    /\ UNCHANGED aux

\* RawCursor::init: get_or_insert_with(list.init()).
cursor_init(s, a) == IF node = NoneP THEN list_init(s, a) ELSE s

\* The addresses a sentinel allocated by RawCursor::init can get.
CursorInitAddr(s) == IF node = NoneP THEN InitAddr(s) ELSE {dangling}

\* The node RawCursor::init returns, in the list state s it leaves.
cursor_init_node(s) == IF node = NoneP THEN s.dummy ELSE node

insert_after(item) ==
    /\ Usable /\ live
    /\ \E d \in CursorInitAddr(Cur) :
         LET s1 == cursor_init(Cur, d)
             n == cursor_init_node(s1)
         IN  \E a \in Fresh(s1) :
               \E s2 \in NodePtr_insert_after(s1, n, a, item) :
                 /\ node' = n
                 /\ index' = IF is_dummy(n, s2) THEN index_add(index, 1, s2.len)
                                                ELSE index
                 /\ Commit(s2, "insert_after", item, Unit)
    /\ UNCHANGED <<live, dropped>>
    /\ UNCHANGED aux

insert_before(item) ==
    /\ Usable /\ live
    /\ \E d \in CursorInitAddr(Cur) :
         LET s1 == cursor_init(Cur, d)
             n == cursor_init_node(s1)
         IN  \E a \in Fresh(s1) :
               \E s2 \in NodePtr_insert_before(s1, n, a, item) :
                 /\ node' = n
                 /\ index' = IF ~is_dummy(n, s2) THEN index_add(index, 1, s2.len)
                                                 ELSE index
                 /\ Commit(s2, "insert_before", item, Unit)
    /\ UNCHANGED <<live, dropped>>
    /\ UNCHANGED aux

\* remove_current that pops whatever node the cursor is on.
remove_current_bug ==
    /\ Usable /\ live
    /\ IF node = NoneP
       THEN /\ Commit(Cur, "remove_current", NoneT, NoneT)
            /\ UNCHANGED node
       ELSE \E g \in Deref(heap, node) :
              /\ Commit(pop_unchecked(Touch(Cur, node), node, g), "remove_current",
                        NoneT, g.item)
              /\ node' = g.next
    /\ UNCHANGED <<live, index, dropped>>
    /\ UNCHANGED aux

\* NodePtr::pop: None at the sentinel, else pop_unchecked.
remove_current ==
    /\ Usable /\ live
    /\ IF node = NoneP
       THEN /\ Commit(Cur, "remove_current", NoneT, NoneT)
            /\ UNCHANGED node
       ELSE \E g \in Deref(heap, node) :
              LET s1 == Touch(Cur, node) IN
              IF is_dummy(node, s1)
              THEN /\ Commit(s1, "remove_current", NoneT, NoneT)
                   /\ UNCHANGED node
              ELSE /\ Commit(pop_unchecked(s1, node, g), "remove_current",
                             NoneT, g.item)
                   /\ node' = g.next
    /\ UNCHANGED <<live, index, dropped>>
    /\ UNCHANGED aux


\* No second list.
NoList == [dummy |-> NoneP, len |-> 0]

\* A block of the fifth::List's memory that is not allocated.
NoNode == [alive |-> FALSE, item |-> NoneT, next |-> NoneP]

\* fifth::List.inner = None.
NoInner == [some |-> FALSE, head |-> dangling, tail |-> dangling]

\* No iterator: the list is not borrowed by one.  seen is the history of a
\* DrainFilter: the nodes its predicate was called on, each with the end it
\* was taken from.
NoIter ==
    [kind |-> "none", some |-> FALSE, front |-> dangling, back |-> dangling,
     len |-> 0, retained |-> 0, pred |-> {}, seen |-> <<>>]

NoHist == [orig |-> <<>>, outf |-> <<>>, outb |-> <<>>]

Init ==
    /\ heap = [a \in Addr |-> DeadNode]
    /\ dummy = NoneP
    /\ len = 0
    /\ live = FALSE
    /\ node = NoneP
    /\ index = 0
    /\ dropped = FALSE
    /\ ub = {}
    /\ iter = NoIter
    /\ hist = NoHist
    /\ other = NoList
    /\ nodes = [a \in Addr |-> NoNode]
    /\ inner = NoInner
    /\ refs = {}
    /\ op = "new"
    /\ arg = NoneT
    /\ ret = Unit

\* The deque and cursor operations.
Core ==
    \/ \E elem \in Items : push_front(elem)
    \/ \E elem \in Items : push_back(elem)
    \/ pop_front
    \/ pop_back
    \/ front
    \/ back
    \/ cursor_new
    \/ cursor_release
    \/ move_next
    \/ move_prev
    \/ current
    \/ peek_next
    \/ peek_prev
    \/ \E item \in Items : insert_after(item)
    \/ \E item \in Items : insert_before(item)
    \/ remove_current

\* The operations that end or restart the list's contents.
Life ==
    \/ clear
    \/ drop

Next ==
    \/ Core
    \/ Life

\* ------------------------------------------------------ observed structure
\* The nodes met from p on, following next until the sentinel d, a node that
\* is not live, or the end of the fuel.
RECURSIVE WalkNext(_, _, _, _)
WalkNext(h, p, d, fuel) ==
    IF p = d \/ fuel = 0 \/ ~Alive(h, p) THEN <<>>
    ELSE <<p>> \o WalkNext(h, h[p].next, d, fuel - 1)

RECURSIVE WalkPrev(_, _, _, _)
WalkPrev(h, p, d, fuel) ==
    IF p = d \/ fuel = 0 \/ ~Alive(h, p) THEN <<>>
    ELSE <<p>> \o WalkPrev(h, h[p].prev, d, fuel - 1)

HasSentinel == dummy # NoneP /\ Alive(heap, dummy)

\* The real nodes of the list with sentinel d in heap h, in next order and
\* in prev order.
ForwardOf(h, d) ==
    IF d # NoneP /\ Alive(h, d) THEN WalkNext(h, h[d].next, d, MaxNodes) ELSE <<>>
BackwardOf(h, d) ==
    IF d # NoneP /\ Alive(h, d) THEN WalkPrev(h, h[d].prev, d, MaxNodes) ELSE <<>>

Forward == ForwardOf(heap, dummy)
Backward == BackwardOf(heap, dummy)

Reverse(q) == [i \in 1 .. Len(q) |-> q[Len(q) + 1 - i]]

\* The payloads of the nodes q.
ItemsOf(h, q) == [i \in 1 .. Len(q) |-> h[q[i]].item]

\* The payloads of the list, first element first.
Contents == LET f == Forward IN ItemsOf(heap, f)

\* The cursor is at the ghost position: unpositioned, or on the sentinel.
AtGhost == node = NoneP \/ node = dummy

\* The place of node x in q, 0 when it is not there.
PosOf(q, x) ==
    LET at == {i \in 1 .. Len(q) : q[i] = x}
    IN  IF at = {} THEN 0 ELSE CHOOSE i \in at : TRUE

\* The cursor's place in next order: 0 at the ghost position, k on the k-th
\* element.
CursorPos == LET f == Forward IN PosOf(f, node)

\* The payload at place k of c, none at place 0.
ValAt(c, k) == IF k = 0 THEN NoneT ELSE c[k]

\* What front(), back() and current() return in this state.
FrontVal == LET c == Contents IN ValAt(c, IF c = <<>> THEN 0 ELSE 1)
BackVal == LET c == Contents IN ValAt(c, Len(c))
CurrentVal ==
    LET k == CursorPos
        c == Contents
    IN  ValAt(c, k)

Pushes == {"push_front", "push_back", "insert_after", "insert_before"}
Pops == {"pop_front", "pop_back", "remove_current"}
Reads == {"front", "back", "current", "peek_next", "peek_prev"}

\* --------------------------------------------------------- iterator layer
\* LinkedList::raw_iter wrapped as an iterator of the given kind: no RawIter
\* without a sentinel, else the sentinel's two links and the list's len.
\* g is the content of the sentinel, pred the payloads a DrainFilter's
\* predicate holds for.
raw_iter(s, kind, pred, g) ==
    IF s.dummy = NoneP
    THEN [NoIter EXCEPT !.kind = kind, !.pred = pred]
    ELSE [kind |-> kind, some |-> TRUE, front |-> g.next, back |-> g.prev,
          len |-> s.len, retained |-> 0, pred |-> pred, seen |-> <<>>]

\* The contents of the sentinel that raw_iter reads.
RawIterReads(s) == IF s.dummy = NoneP THEN {DeadNode} ELSE Deref(s.h, s.dummy)

\* The list state after raw_iter's read.
RawIterTouch(s) == IF s.dummy = NoneP THEN s ELSE Touch(s, s.dummy)

\* RawIter::next that hands the node out without stepping past it.
RawIter_next_bug(it, g) == [it EXCEPT !.len = saturating_sub(it.len, 1)]

\* RawIter::next, taken with len # 0: step front past the node it returns.
\* g is the content of that node.
RawIter_next(it, g) ==
    [it EXCEPT !.front = g.next, !.len = saturating_sub(it.len, 1)]

\* RawIter::next_back that does not step back over the node it returns.
RawIter_next_back_stuck(it, g) == [it EXCEPT !.len = saturating_sub(it.len, 1)]

\* RawIter::next_back that does not count the node it returns.
RawIter_next_back_bug(it, g) == [it EXCEPT !.back = g.prev]

\* RawIter::next_back, taken with len # 0.
RawIter_next_back(it, g) ==
    [it EXCEPT !.back = g.prev, !.len = saturating_sub(it.len, 1)]

\* ExactSizeIterator::len of Iter and IterMut (inner.map_or(0, RawIter::len))
\* and of IntoIter (inner.len).
iter_len == IF iter.kind = "into" THEN len ELSE IF iter.some THEN iter.len ELSE 0

\* Iterator::size_hint of Iter, IterMut and IntoIter.
size_hint == <<iter_len, iter_len>>

\* LinkedList::iter / iter_mut: Iter and IterMut wrap the same RawIter and
\* differ in the kind of reference they hand out.
iter_new ==
    /\ Usable /\ ~live
    /\ \E g \in RawIterReads(Cur) :
         /\ iter' = raw_iter(Cur, "iter", {}, g)
         /\ Commit(RawIterTouch(Cur), "iter", NoneT, Unit)
    /\ hist' = [NoHist EXCEPT !.orig = Contents]
    /\ UNCHANGED <<live, node, index, dropped>>
    /\ UNCHANGED <<other, apart>>

\* The iterator goes out of scope and the borrow ends.
iter_release ==
    /\ Running /\ iter.kind = "iter"
    /\ iter' = NoIter
    /\ hist' = NoHist
    /\ Commit(Cur, "iter_release", NoneT, Unit)
    /\ UNCHANGED <<live, node, index, dropped>>
    /\ UNCHANGED <<other, apart>>

\* Iter::next / IterMut::next.
iter_next ==
    /\ Running /\ iter.kind = "iter"
    /\ IF ~iter.some \/ iter.len = 0
       THEN /\ Commit(Cur, "iter_next", NoneT, NoneT)
            /\ UNCHANGED <<iter, hist>>
       ELSE \E g \in Deref(heap, iter.front) :
              /\ iter' = RawIter_next(iter, g)
              /\ hist' = [hist EXCEPT !.outf = Append(@, g.item)]
              /\ Commit(Touch(Cur, iter.front), "iter_next", NoneT, g.item)
    /\ UNCHANGED <<live, node, index, dropped>>
    /\ UNCHANGED <<other, apart>>

\* Iter::next_back / IterMut::next_back.
iter_next_back ==
    /\ Running /\ iter.kind = "iter"
    /\ IF ~iter.some \/ iter.len = 0
       THEN /\ Commit(Cur, "iter_next_back", NoneT, NoneT)
            /\ UNCHANGED <<iter, hist>>
       ELSE \E g \in Deref(heap, iter.back) :
              /\ iter' = RawIter_next_back(iter, g)
              /\ hist' = [hist EXCEPT !.outb = Append(@, g.item)]
              /\ Commit(Touch(Cur, iter.back), "iter_next_back", NoneT, g.item)
    /\ UNCHANGED <<live, node, index, dropped>>
    /\ UNCHANGED <<other, apart>>

\* LinkedList::pop_front on list state s: the pairs of the state it leaves
\* and the value it returns.
list_pop_front(s) ==
    IF s.dummy = NoneP \/ is_dummy(s.h[s.dummy].next, s)
    THEN {<<s, NoneT>>}
    ELSE LET p == s.h[s.dummy].next IN
         {LET s1 == dealloc_raw(s, p)
              s2 == set_next(s1, s.dummy, g.next)
              s3 == set_prev(s2, g.next, s.dummy)
          IN  <<[s3 EXCEPT !.len = saturating_sub(s3.len, 1)], g.item>>
            : g \in Deref(s.h, p)}

\* pop_back that unlinks the last node and does not free it.
list_pop_back_bug(s) ==
    IF s.dummy = NoneP \/ is_dummy(s.h[s.dummy].prev, s)
    THEN {<<s, NoneT>>}
    ELSE LET p == s.h[s.dummy].prev IN
         {LET s2 == set_prev(s, s.dummy, g.prev)
              s3 == set_next(s2, g.prev, s.dummy)
          IN  <<[s3 EXCEPT !.len = saturating_sub(s3.len, 1)], g.item>>
            : g \in Deref(s.h, p)}

\* LinkedList::pop_back on list state s.
list_pop_back(s) ==
    IF s.dummy = NoneP \/ is_dummy(s.h[s.dummy].prev, s)
    THEN {<<s, NoneT>>}
    ELSE LET p == s.h[s.dummy].prev IN
         {LET s1 == dealloc_raw(s, p)
              s2 == set_prev(s1, s.dummy, g.prev)
              s3 == set_next(s2, g.prev, s.dummy)
          IN  <<[s3 EXCEPT !.len = saturating_sub(s3.len, 1)], g.item>>
            : g \in Deref(s.h, p)}

\* IntoIterator for LinkedList: the iterator owns the list.
into_iter ==
    /\ Usable /\ ~live
    /\ iter' = [NoIter EXCEPT !.kind = "into"]
    /\ hist' = [NoHist EXCEPT !.orig = Contents]
    /\ Commit(Cur, "into_iter", NoneT, Unit)
    /\ UNCHANGED <<live, node, index, dropped>>
    /\ UNCHANGED <<other, apart>>

\* IntoIter::next: pop_front on the owned list.
into_next ==
    /\ Running /\ iter.kind = "into"
    /\ \E r \in list_pop_front(Cur) :
         /\ Commit(r[1], "into_next", NoneT, r[2])
         /\ hist' = IF r[2] = NoneT THEN hist
                    ELSE [hist EXCEPT !.outf = Append(@, r[2])]
    /\ UNCHANGED <<iter, live, node, index, dropped>>
    /\ UNCHANGED <<other, apart>>

\* IntoIter::next_back: pop_back on the owned list.
into_next_back ==
    /\ Running /\ iter.kind = "into"
    /\ \E r \in list_pop_back(Cur) :
         /\ Commit(r[1], "into_next_back", NoneT, r[2])
         /\ hist' = IF r[2] = NoneT THEN hist
                    ELSE [hist EXCEPT !.outb = Append(@, r[2])]
    /\ UNCHANGED <<iter, live, node, index, dropped>>
    /\ UNCHANGED <<other, apart>>

\* The IntoIter goes out of scope: the list it owns is dropped.
into_drop ==
    /\ Running /\ iter.kind = "into"
    /\ \E s \in list_drop(Cur) : Commit(s, "into_drop", NoneT, Unit)
    /\ dropped' = TRUE
    /\ UNCHANGED <<iter, hist, live, node, index>>
    /\ UNCHANGED <<other, apart>>

\* DrainFilter::new with a predicate that holds for the payloads in pred.
drain_new(pred) ==
    /\ Usable /\ ~live
    /\ \E g \in RawIterReads(Cur) :
         /\ iter' = raw_iter(Cur, "drain", pred, g)
         /\ Commit(RawIterTouch(Cur), "drain", NoneT, Unit)
    /\ hist' = [NoHist EXCEPT !.orig = Contents]
    /\ UNCHANGED <<live, node, index, dropped>>
    /\ UNCHANGED <<other, apart>>

\* The DrainFilter goes out of scope and the borrow ends.
drain_release ==
    /\ Running /\ iter.kind = "drain"
    /\ iter' = NoIter
    /\ hist' = NoHist
    /\ Commit(Cur, "drain_release", NoneT, Unit)
    /\ UNCHANGED <<live, node, index, dropped>>
    /\ UNCHANGED <<other, apart>>

\* The loop of DrainFilter::next (fwd) and DrainFilter::next_back (~fwd)
\* from list state s and iterator it: the outcomes it can end in, each the
\* list state, the iterator and the value returned.  The RawIter hands out
\* the next node; when the predicate holds for its payload the node is
\* popped and the payload returned, else retained is raised and the loop
\* goes on; None when the RawIter is exhausted.
RECURSIVE drain_loop(_, _, _)
drain_loop(s, it, fwd) ==
    IF ~it.some \/ it.len = 0 THEN {[s |-> s, it |-> it, ret |-> NoneT]}
    ELSE LET ptr == IF fwd THEN it.front ELSE it.back IN
         UNION {LET s1 == Touch(s, ptr)
                    it0 == [it EXCEPT !.seen = Append(@, <<ptr, fwd>>)]
                    it1 == IF fwd THEN RawIter_next(it0, g)
                                  ELSE RawIter_next_back(it0, g)
                IN  IF g.item \in it.pred
                    THEN {[s |-> pop_unchecked(s1, ptr, g), it |-> it1,
                           ret |-> g.item]}
                    ELSE drain_loop(s1,
                           [it1 EXCEPT !.retained = saturating_add(@, 1)], fwd)
                  : g \in Deref(s.h, ptr)}

\* DrainFilter::next.
drain_next ==
    /\ Running /\ iter.kind = "drain"
    /\ \E r \in drain_loop(Cur, iter, TRUE) :
         /\ iter' = r.it
         /\ hist' = IF r.ret = NoneT THEN hist
                    ELSE [hist EXCEPT !.outf = Append(@, r.ret)]
         /\ Commit(r.s, "drain_next", NoneT, r.ret)
    /\ UNCHANGED <<live, node, index, dropped>>
    /\ UNCHANGED <<other, apart>>

\* DrainFilter::next_back.
drain_next_back ==
    /\ Running /\ iter.kind = "drain"
    /\ \E r \in drain_loop(Cur, iter, FALSE) :
         /\ iter' = r.it
         /\ hist' = IF r.ret = NoneT THEN hist
                    ELSE [hist EXCEPT !.outb = Append(@, r.ret)]
         /\ Commit(r.s, "drain_next_back", NoneT, r.ret)
    /\ UNCHANGED <<live, node, index, dropped>>
    /\ UNCHANGED <<other, apart>>

\* size_hint that does not take the retained nodes off.
DrainFilter_size_hint_bug == <<0, len>>

\* DrainFilter::size_hint: (0, Some(self.list.len - self.retained)).
DrainFilter_size_hint == <<0, len - iter.retained>>

\* ------------------------------------------------------------ slice layer
\* slice_off_as_list that leaves the length of the list it cuts from as
\* it was.
NodePtr_slice_off_as_list_bug(s, first, last, n, a) ==
    UNION {LET s1 == link(Touch(Touch(s, first), last), gf.prev, gb.next)
               r1 == list_init(St(s1.h, NoneP, 0, s1.ub), a)
           IN  {LET r2 == splice_after(r1, a, first, last, n, g)
                IN  <<[s1 EXCEPT !.h = r2.h, !.ub = r2.ub],
                      [dummy |-> r2.dummy, len |-> r2.len]>>
                  : g \in Deref(r1.h, a)}
             : gf \in Deref(s.h, first), gb \in Deref(s.h, last)}

\* NodePtr::slice_off_as_list(first, last, n, list) with the new list's
\* sentinel allocated at a: the pairs of the list state it leaves and the
\* list it returns.  The run is unlinked from the list and len lowered;
\* LinkedList::new() and init() make the new sentinel, splice_after puts the
\* run behind it.
NodePtr_slice_off_as_list(s, first, last, n, a) ==
    UNION {LET s1 == link(Touch(Touch(s, first), last), gf.prev, gb.next)
               s2 == [s1 EXCEPT !.len = saturating_sub(s1.len, n)]
               r1 == list_init(St(s2.h, NoneP, 0, s2.ub), a)
           IN  {LET r2 == splice_after(r1, a, first, last, n, g)
                IN  <<[s2 EXCEPT !.h = r2.h, !.ub = r2.ub],
                      [dummy |-> r2.dummy, len |-> r2.len]>>
                  : g \in Deref(r1.h, a)}
             : gf \in Deref(s.h, first), gb \in Deref(s.h, last)}

\* NodePtr::slice_off_as_list called on the run of k nodes that starts at
\* the i-th element.
slice_off_as_list(i, k) ==
    /\ Usable /\ ~live /\ other = NoList
    /\ HasSentinel
    /\ i + k - 1 <= Len(Forward)
    /\ \E a \in Fresh(Cur) :
         \E r \in NodePtr_slice_off_as_list(Cur, Forward[i], Forward[i + k - 1], k, a) :
           /\ other' = r[2]
           /\ Commit(r[1], "slice_off_as_list", NoneT, Unit)
    /\ UNCHANGED <<live, node, index, dropped>>
    /\ UNCHANGED <<iter, hist, apart>>

\* RawCursor::remove_current_as_list.
remove_current_as_list ==
    /\ Usable /\ live /\ other = NoList
    /\ IF node = NoneP
       THEN /\ Commit(Cur, "remove_current_as_list", NoneT, NoneT)
            /\ UNCHANGED <<node, other>>
       ELSE \E g \in Deref(heap, node) :
              LET s1 == Touch(Cur, node) IN
              IF is_dummy(node, s1)
              THEN /\ Commit(s1, "remove_current_as_list", NoneT, NoneT)
                   /\ UNCHANGED <<node, other>>
              ELSE \E a \in Fresh(s1) :
                     \E r \in NodePtr_slice_off_as_list(s1, node, node, 1, a) :
                       /\ other' = r[2]
                       /\ node' = g.next
                       /\ Commit(r[1], "remove_current_as_list", NoneT, Unit)
    /\ UNCHANGED <<live, index, dropped>>
    /\ UNCHANGED <<iter, hist, apart>>

\* Drop::drop of the list that slice_off_as_list returned.
other_drop ==
    /\ Usable /\ other # NoList
    /\ \E s \in list_drop(St(heap, other.dummy, other.len, ub)) :
         Commit([Cur EXCEPT !.h = s.h, !.ub = s.ub], "other_drop", NoneT, Unit)
    /\ other' = NoList
    /\ UNCHANGED <<live, node, index, dropped>>
    /\ UNCHANGED <<iter, hist, apart>>

\* ------------------------------------------------------------ fifth::List
\* The variables of the sixth::LinkedList, which the fifth::List does not
\* touch.
sixth == <<heap, dummy, len, live, node, index, dropped, iter, hist, other>>

\* fifth::Node { item, next } in an allocated block.
FifthNode(i, n) == [alive |-> TRUE, item |-> i, next |-> n]

\* The identities no pointer of the fifth::List holds any more.
FifthFree ==
    {a \in Addr :
        /\ ~nodes[a].alive
        /\ inner.some => (a # inner.head /\ a # inner.tail)
        /\ \A b \in Addr : nodes[b].alive => nodes[b].next # a}

\* The identity Box::new returns: the least free one.
FifthFresh ==
    IF FifthFree = {} THEN {}
    ELSE {CHOOSE a \in FifthFree : \A b \in FifthFree : a <= b}

\* What a read of *p can produce.
FifthDeref(p) ==
    IF nodes[p].alive THEN {nodes[p]}
    ELSE {FifthNode(gi, gn) : gi \in Items, gn \in Addr \cup {NoneP}}

\* push that does not link the old tail to the new node.
fifth_push_bug(item) ==
    /\ ub = {}
    /\ \E a \in FifthFresh :
         /\ nodes' = [nodes EXCEPT ![a] = FifthNode(item, NoneP)]
         /\ inner' = [some |-> TRUE,
                      head |-> IF inner.some THEN inner.head ELSE a,
                      tail |-> a]
    /\ op' = "fifth_push" /\ arg' = item /\ ret' = Unit
    /\ UNCHANGED <<sixth, ub, refs>>

\* fifth::List::push: box the new tail; with an Inner, write it into the old
\* tail's next and keep the head, else it is the head too.
fifth_push(item) ==
    /\ ub = {}
    /\ \E a \in FifthFresh :
         LET boxed == [nodes EXCEPT ![a] = FifthNode(item, NoneP)] IN
         IF inner.some
         THEN /\ IF boxed[inner.tail].alive
                 THEN /\ nodes' = [boxed EXCEPT ![inner.tail].next = a]
                      /\ ub' = ub
                 ELSE /\ nodes' = boxed
                      /\ ub' = ub \cup {UafWrite}
              /\ inner' = [some |-> TRUE, head |-> inner.head, tail |-> a]
         ELSE /\ nodes' = boxed
              /\ ub' = ub
              /\ inner' = [some |-> TRUE, head |-> a, tail |-> a]
    /\ op' = "fifth_push" /\ arg' = item /\ ret' = Unit
    /\ UNCHANGED <<sixth, refs>>

\* fifth::List::pop: None without an Inner; else unbox the head, make its
\* next the head if there is one and drop the Inner if not, return the item.
fifth_pop ==
    /\ ub = {}
    /\ IF ~inner.some
       THEN /\ ret' = NoneT
            /\ UNCHANGED <<nodes, inner, ub>>
       ELSE \E g \in FifthDeref(inner.head) :
              /\ nodes' = [nodes EXCEPT ![inner.head] = NoNode]
              /\ ub' = IF nodes[inner.head].alive THEN ub ELSE ub \cup {DoubleFree}
              /\ inner' = IF g.next = NoneP THEN NoInner
                          ELSE [some |-> TRUE, head |-> g.next, tail |-> inner.tail]
              /\ ret' = g.item
    /\ op' = "fifth_pop" /\ arg' = NoneT
    /\ UNCHANGED <<sixth, refs>>

\* fifth::List::peek: the item of the head.
fifth_peek ==
    /\ ub = {}
    /\ IF ~inner.some
       THEN ret' = NoneT /\ ub' = ub
       ELSE \E g \in FifthDeref(inner.head) :
              /\ ret' = g.item
              /\ ub' = IF nodes[inner.head].alive THEN ub ELSE ub \cup {UafRead}
    /\ op' = "fifth_peek" /\ arg' = NoneT
    /\ UNCHANGED <<sixth, nodes, inner, refs>>

\* The nodes met from p on along next.
RECURSIVE FifthWalk(_, _, _)
FifthWalk(h, p, fuel) ==
    IF p = NoneP \/ fuel = 0 THEN <<>>
    ELSE IF ~h[p].alive THEN <<>>
    ELSE <<p>> \o FifthWalk(h, h[p].next, fuel - 1)

\* The nodes of the queue, head first.
QueueNodes == IF inner.some THEN FifthWalk(nodes, inner.head, MaxNodes) ELSE <<>>

\* The items of the queue, head first.
Queue == LET q == QueueNodes IN [i \in 1 .. Len(q) |-> nodes[q[i]].item]

\* The operations of the fifth::List.
Fifth ==
    \/ \E item \in Items : fifth_push(item)
    \/ fifth_pop
    \/ fifth_peek

\* Histories of the fifth::List.
SpecFifth == Init /\ [][Fifth]_vars

\* ------------------------------------------------- borrows of the list
\* The views of a list, which hold a reference to the list itself.
ListViews == {"Cursor", "CursorMut", "Iter", "IterMut", "DrainFilter"}

\* The methods that return a reference to an element.
ItemRefs == {"front", "front_mut", "back", "back_mut"}

\* The borrow of the list a view is made from: CursorMut, IterMut and
\* DrainFilter hold a &mut LinkedList; Cursor and Iter hold a &LinkedList;
\* front, back, front_mut and back_mut all take &self.
Receiver(view) ==
    IF view \in {"CursorMut", "IterMut", "DrainFilter"} THEN "exclusive" ELSE "shared"

\* What a view gives access to: CursorMut, IterMut and DrainFilter change
\* the list or hand out &mut T; front_mut and back_mut return Option<&mut T>.
Access(view) ==
    IF view \in {"CursorMut", "IterMut", "DrainFilter", "front_mut", "back_mut"}
    THEN "write" ELSE "read"

\* The target of a view of the whole list.
WholeList == dangling

\* The borrow rule of the language: a &mut borrow of the list needs that no
\* borrow of it is live, a & borrow that no &mut borrow is.
Permits(view) ==
    IF Receiver(view) = "exclusive" THEN refs = {}
    ELSE \A r \in refs : Receiver(r.view) = "shared"

\* The place of the next borrow.
FreeSlot ==
    LET free == (1 .. MaxRefs) \ {r.slot : r \in refs} IN
    IF free = {} THEN {} ELSE {CHOOSE k \in free : \A j \in free : k <= j}

\* A Cursor, CursorMut, Iter, IterMut or DrainFilter is made of the list.
view_new(view) ==
    /\ Running /\ Permits(view)
    /\ \E k \in FreeSlot :
         refs' = refs \cup {[slot |-> k, view |-> view, target |-> WholeList]}
    /\ op' = view /\ arg' = NoneT /\ ret' = Unit
    /\ UNCHANGED <<sixth, ub, nodes, inner>>

\* front, back, front_mut, back_mut: None without a sentinel or at the
\* sentinel, else a reference to the item of the first or last node.
ref_new(view) ==
    /\ Running /\ Permits(view)
    /\ \E k \in FreeSlot :
         IF dummy = NoneP
         THEN refs' = refs /\ ret' = NoneT
         ELSE LET p == IF view \in {"front", "front_mut"}
                       THEN heap[dummy].next ELSE heap[dummy].prev IN
              IF p = dummy
              THEN refs' = refs /\ ret' = NoneT
              ELSE /\ refs' = refs \cup {[slot |-> k, view |-> view, target |-> p]}
                   /\ ret' = heap[p].item
    /\ op' = view /\ arg' = NoneT
    /\ UNCHANGED <<sixth, ub, nodes, inner>>

\* The lifetime of a view or reference ends.
ref_release ==
    /\ Running
    /\ \E r \in refs : refs' = refs \ {r}
    /\ op' = "release" /\ arg' = NoneT /\ ret' = Unit
    /\ UNCHANGED <<sixth, ub, nodes, inner>>

\* Views and references with the operations that take &mut self, which
\* need that no borrow is live.
Borrow ==
    \/ \E view \in ListViews : view_new(view)
    \/ \E view \in ItemRefs : ref_new(view)
    \/ ref_release
    \/ refs = {} /\ \E item \in Items : push_front(item)
    \/ refs = {} /\ \E item \in Items : push_back(item)
    \/ refs = {} /\ pop_front
    \/ refs = {} /\ pop_back

\* Histories of borrows of one list.
SpecBorrow == Init /\ [][Borrow]_vars

\* ------------------------------------------------ payloads of freed nodes
\* The real nodes a step from heap h to heap h2 deallocates: dealloc_raw
\* turns the box back into a Node whose item is a MaybeUninit<T>, which
\* drops nothing when it goes out of scope.
Deallocated(h, h2) ==
    {a \in Addr : h[a].alive /\ ~h2[a].alive /\ h[a].item # Uninit}

\* The operations that free a node with dealloc / dealloc_unchecked, which
\* take the payload out with assume_init and hand it to the caller as a T;
\* clear and Drop call dealloc_raw alone.
TakesPayload ==
    {"pop_front", "pop_back", "remove_current", "into_next", "into_next_back",
     "drain_next", "drain_next_back"}

\* The number of payloads the operation o with result r has taken out of
\* their nodes as values of T, which the language drops once.
Taken(o, r) == IF o \in TakesPayload /\ r # NoneT THEN 1 ELSE 0

\* Histories of push, pop and cursor operations.
Spec == Init /\ [][Core]_vars

\* Histories that also clear and destroy the list.
SpecLife == Init /\ [][Next]_vars

\* The deque operations, clear, and the iterators over the list.
Traverse ==
    \/ \E elem \in Items : push_front(elem)
    \/ \E elem \in Items : push_back(elem)
    \/ pop_front
    \/ pop_back
    \/ clear
    \/ iter_new
    \/ iter_next
    \/ iter_next_back
    \/ iter_release
    \/ into_iter
    \/ into_next
    \/ into_next_back

\* Histories of deque operations, clear and traversals.
SpecIter == Init /\ [][Traverse]_vars

Consume ==
    \/ \E elem \in Items : push_front(elem)
    \/ \E elem \in Items : push_back(elem)
    \/ pop_front
    \/ pop_back
    \/ into_iter
    \/ into_next
    \/ into_next_back
    \/ into_drop

\* Histories of deque operations and a consuming traversal.
SpecInto == Init /\ [][Consume]_vars

\* The deque operations and the draining of the list.
Drain ==
    \/ \E elem \in Items : push_front(elem)
    \/ \E elem \in Items : push_back(elem)
    \/ pop_front
    \/ pop_back
    \/ \E pred \in SUBSET Items : drain_new(pred)
    \/ drain_next
    \/ drain_next_back
    \/ drain_release

\* Histories of deque operations and drains.
SpecDrain == Init /\ [][Drain]_vars

\* The deque operations, the cursor's moves, and the slicing of runs into
\* a list of their own.
Slice ==
    \/ \E elem \in Items : push_front(elem)
    \/ \E elem \in Items : push_back(elem)
    \/ pop_front
    \/ pop_back
    \/ cursor_new
    \/ cursor_release
    \/ move_next
    \/ move_prev
    \/ \E i, k \in 1 .. MaxNodes : slice_off_as_list(i, k)
    \/ remove_current_as_list
    \/ other_drop

\* Histories of deque operations, cursor moves and slices.
SpecSlice == Init /\ [][Slice]_vars

\* ---------------------------------------------------------------- claims
RingLinks ==
    \A n \in Addr :
        heap[n].alive =>
            /\ Alive(heap, heap[n].next) /\ heap[heap[n].next].prev = n
            /\ Alive(heap, heap[n].prev) /\ heap[heap[n].prev].next = n

\* The walk q, taken from the sentinel along the links step, has stopped in front of
\* the sentinel.
Closes(q, first, step) ==
    IF q = <<>> THEN first = dummy ELSE step[q[Len(q)]] = dummy

RingLen ==
    HasSentinel =>
        LET f == Forward
            b == Backward
        IN  /\ Len(f) = len
            /\ Closes(f, heap[dummy].next, [a \in Addr |-> heap[a].next])
            /\ Len(b) = len
            /\ Closes(b, heap[dummy].prev, [a \in Addr |-> heap[a].prev])
            /\ b = Reverse(f)
            /\ \A n \in Addr : heap[n].alive =>
                   (n = dummy \/ \E i \in 1 .. Len(f) : f[i] = n)

\* C1: in every state reached by pushes, pops and cursor insertions and
\* removals, every allocated node n (the sentinel included) has
\* n.next.prev = n and n.prev.next = n, and the walk along next (and along
\* prev) from the sentinel meets exactly len real nodes, every real node of
\* the list, before it is back at the sentinel.
C1_RingInvariant == RingLinks /\ RingLen

\* A cursor removal in the middle of a list that keeps two elements.
C1_Witness ==
    /\ op = "remove_current" /\ ret # NoneT
    /\ len >= 2 /\ CursorPos = 2
    /\ C1_RingInvariant

LenInv == len = Len(Forward)

LenStep ==
    /\ op' \in Pushes => len' = len + 1
    /\ (op' \in Pops /\ ret' # NoneT) => len' = len - 1
    /\ (op' \in Pops /\ ret' = NoneT) => len' = len

\* C2: len always equals the number of real nodes reachable from the
\* sentinel; every push or insert raises it by exactly 1, every pop or
\* removal that returns an element lowers it by exactly 1, and one that
\* returns None leaves it as it was.
C2_LengthInvariant == [](LenInv) /\ [][LenStep]_vars

\* A pop that returns None on a list emptied by pops, and leaves len at 0.
C2_Witness ==
    /\ op = "pop_back" /\ ret = NoneT
    /\ HasSentinel /\ len = 0 /\ Forward = <<>>

PushStep ==
    op' \in {"push_front", "push_back"} =>
        \A c \in {Contents}, c2 \in {Contents'} :
            c2 = IF op' = "push_front" THEN <<arg'>> \o c ELSE Append(c, arg')

PopStep ==
    op' \in {"pop_front", "pop_back"} =>
        \A c \in {Contents}, c2 \in {Contents'} :
            IF c = <<>> THEN ret' = NoneT /\ c2 = <<>>
            ELSE IF op' = "pop_front" THEN ret' = Head(c) /\ c2 = Tail(c)
            ELSE ret' = c[Len(c)] /\ c2 = SubSeq(c, 1, Len(c) - 1)

DequeStep == PushStep /\ PopStep

\* C3: the list refines a sequence: push_front prepends, push_back appends,
\* pop_front removes and returns the first element, pop_back the last, and
\* either returns None on the empty sequence.
C3_DequeLaws == [][DequeStep]_vars

\* pop_front has returned the element a push_front put in front of two
\* others.
C3_Witness ==
    /\ op = "pop_front" /\ ret # NoneT
    /\ Len(Contents) = 2

\* No element is stored: the list is new, or no real node is allocated (it
\* was emptied by pops, or cleared).
NoElement == ~HasSentinel \/ \A a \in Addr : heap[a].alive => a = dummy

\* C4: on a list that is new, emptied by pops or cleared, pop_front,
\* pop_back, front, back, current, peek_next and peek_prev return None and
\* leave the length and the links as they were.
C4_EmptyListSafety ==
    [][(NoElement /\ op' \in Reads \cup {"pop_front", "pop_back"}) =>
          (ret' = NoneT /\ len' = len /\ heap' = heap /\ dummy' = dummy)]_vars

SelfLinked == heap[dummy].next = dummy /\ heap[dummy].prev = dummy

\* C5: after clear() len is 0, the sentinel (if there is one) is still
\* allocated and linked to itself, and a push that follows yields the
\* contents it yields on a new list.
C5_ClearEmpties ==
    /\ [](op = "clear" => (len = 0 /\ (dummy # NoneP => HasSentinel /\ SelfLinked)))
    /\ [][(op = "clear" /\ op' \in {"push_front", "push_back"}) =>
            (Contents' = <<arg'>> /\ len' = 1)]_vars

\* C6: once the list is destroyed, no node and no sentinel is still
\* allocated.
C6_DropCompleteness == dropped => \A a \in Addr : ~heap[a].alive

SentinelInv ==
    /\ op = "new" => (dummy = NoneP /\ len = 0)
    /\ Cardinality({a \in Addr : heap[a].alive /\ heap[a].item = Uninit}) <= 1
    /\ (dummy # NoneP /\ ~dropped) => (Alive(heap, dummy) /\ heap[dummy].item = Uninit)
    /\ dummy = NoneP => \A a \in Addr : ~heap[a].alive

SentinelStep ==
    /\ op' \in Pushes => dummy' # NoneP
    /\ op' \notin Pushes => dummy' = dummy
    /\ dummy # NoneP => dummy' = dummy
    /\ (HasSentinel /\ ~Alive(heap', dummy)) => op' = "drop"

\* C7: a new list has length 0 and no sentinel; the sentinel appears with
\* the first push or cursor insertion and with no other operation; at most
\* one sentinel is allocated; once there, the stored sentinel is never
\* replaced, and nothing but the destruction of the list frees it.
C7_LazySentinel == [](SentinelInv) /\ [][SentinelStep]_vars

\* clear has run on a list with elements and the sentinel is still there.
C7_Witness ==
    /\ op = "clear" /\ len > 0
    /\ HasSentinel /\ ub = {}

\* C8: the cursor's stored index equals len exactly when the cursor is at
\* the ghost position, so that index() is None exactly there.
C8_IndexInvariant ==
    live => (/\ (index = len) <=> AtGhost
             /\ (cursor_index = NoneP) <=> AtGhost)

MoveStep ==
    (live /\ AtGhost /\ op' \in {"move_next", "move_prev"}) =>
        \A f2 \in {Forward'} :
            /\ f2 = <<>> => AtGhost'
            /\ f2 # <<>> =>
                  \A c2 \in {ItemsOf(heap', f2)} :
                      /\ node' = f2[IF op' = "move_next" THEN 1 ELSE Len(f2)]
                      /\ ValAt(c2, PosOf(f2, node')) =
                             ValAt(c2, IF op' = "move_next" THEN 1 ELSE Len(c2))

ReadStep ==
    op' \in {"front", "back", "current"} =>
        \A f \in {Forward} :
            \A c \in {ItemsOf(heap, f)} :
                /\ op' = "front" => ret' = ValAt(c, IF c = <<>> THEN 0 ELSE 1)
                /\ op' = "back" => ret' = ValAt(c, Len(c))
                /\ op' = "current" => ret' = ValAt(c, PosOf(f, node))

WrapStep == MoveStep /\ ReadStep

\* C9: one move_next from the ghost position puts the cursor on the node
\* front() reads, one move_prev on the node back() reads, where front(),
\* back() and current() return the payload of the first node, of the last
\* node and of the cursor's node; on an empty list both moves leave the
\* cursor at the ghost position.
C9_CursorWrap == [][WrapStep]_vars

\* The cursor has stepped from the ghost position to the first of at least
\* two elements.
C9_Witness ==
    /\ op = "move_next" /\ live
    /\ Len(Forward) >= 2 /\ node = Forward[1]

\* q with x put in behind its first k elements.
InsertAt(q, k, x) == SubSeq(q, 1, k) \o <<x>> \o SubSeq(q, k + 1, Len(q))

InsertStep ==
    (live /\ op' \in {"insert_after", "insert_before"}) =>
        \A f \in {Forward}, f2 \in {Forward'} :
            \A c \in {ItemsOf(heap, f)}, c2 \in {ItemsOf(heap', f2)},
               k \in {PosOf(f, node)}, k2 \in {PosOf(f2, node')} :
                /\ op' = "insert_after" =>
                      /\ c2 = InsertAt(c, k, arg')
                      /\ k2 = k
                /\ op' = "insert_before" =>
                      /\ c2 = IF AtGhost THEN Append(c, arg')
                                         ELSE InsertAt(c, k - 1, arg')
                      /\ k2 = IF AtGhost THEN 0 ELSE k + 1
                /\ HasSentinel'
                /\ IF node = NoneP THEN node' = dummy' ELSE node' = node
                /\ len' = len + 1

\* C10: insert_after(x) puts x right behind the cursor's node (in front of
\* all elements at the ghost position), insert_before(x) right in front of
\* it (behind all elements at the ghost position); the sentinel is created
\* if there was none; the cursor stays on its node, the other elements keep
\* their order, and len grows by 1.
C10_InsertPlacement == [][InsertStep]_vars

\* insert_before has put an element between two others, in front of the
\* cursor's node.
C10_Witness ==
    /\ op = "insert_before" /\ live
    /\ CursorPos = 3 /\ Len(Contents) = 3

GhostRemoveStep ==
    (live /\ AtGhost /\ op' = "remove_current") =>
        /\ ret' = NoneT
        /\ heap' = heap /\ dummy' = dummy /\ len' = len
        /\ node' = node /\ index' = index
        /\ ub' = {}

\* C11: remove_current on a cursor at the ghost position, the sentinel or
\* the unpositioned cursor of a list never initialized, returns None and
\* leaves the links, the length, the cursor's node and its index unchanged.
C11_RemoveAtSentinel == [][GhostRemoveStep]_vars

\* remove_current has returned None on the sentinel of a list with elements.
C11_Witness ==
    /\ op = "remove_current" /\ ret = NoneT
    /\ live /\ node = dummy /\ HasSentinel /\ len >= 1

\* q without its k-th element.
RemoveAt(q, k) == SubSeq(q, 1, k - 1) \o SubSeq(q, k + 1, Len(q))

RemoveStep ==
    (live /\ ~AtGhost /\ op' = "remove_current") =>
        \A f \in {Forward}, f2 \in {Forward'} :
            \A k \in {PosOf(f, node)} :
                /\ k > 0
                /\ ret' = heap[node].item
                /\ ~heap'[node].alive
                /\ \A a \in Addr \ {node} : heap'[a].alive = heap[a].alive
                /\ len' = len - 1
                /\ f2 = RemoveAt(f, k)
                /\ ItemsOf(heap', f2) = RemoveAt(ItemsOf(heap, f), k)
                /\ node' = IF k = Len(f) THEN dummy ELSE f[k + 1]
                /\ node' = dummy' \/ PosOf(f2, node') = k
                /\ Alive(heap', node')

\* C12: remove_current on a cursor at a real node returns that node's
\* payload, unlinks and frees that node and no other, lowers len by 1, and
\* leaves the cursor on the removed node's successor (the sentinel when the
\* last element was removed), which is allocated and linked in the list.
C12_RemoveAtNode == [][RemoveStep]_vars

\* remove_current has removed the last element and left the cursor at the
\* sentinel of a list that still has elements.
C12_Witness ==
    /\ op = "remove_current" /\ ret # NoneT
    /\ live /\ node = dummy /\ len >= 2

\* i modulo m for an i that may be negative by less than m.
Mod(i, m) == (i + m) % m

IndexWrapStep ==
    /\ (live /\ op' = "move_next") => index' = Mod(index + 1, len + 1)
    /\ (live /\ op' = "move_prev") => index' = Mod(index - 1, len + 1)
    /\ (live /\ op' = "move_prev" /\ index = 0 /\ len > 0) =>
          (index' = len /\ cursor_index' = NoneP)

\* C19: move_next takes the stored index from i to (i + 1) mod (len + 1)
\* and move_prev from i to (i - 1) mod (len + 1); move_prev from index 0 on
\* a list with elements gives index len, for which index() is None.
C19_IndexWrap == [][IndexWrapStep]_vars

ShiftStep ==
    /\ (live /\ op' = "insert_after") =>
          index' = IF AtGhost THEN index + 1 ELSE index
    /\ (live /\ op' = "insert_before") =>
          index' = IF AtGhost THEN index ELSE index + 1

\* C20: at the sentinel insert_after raises the stored index by one and
\* insert_before leaves it as it is; at a real node insert_before raises it
\* by one and insert_after leaves it as it is.
C20_IndexShift == [][ShiftStep]_vars

TraversalInv ==
    iter.kind = "iter" =>
        LET n == Len(hist.orig)
            nf == Len(hist.outf)
            nb == Len(hist.outb)
        IN  /\ hist.orig = Contents
            /\ nf + nb <= n
            /\ hist.outf = SubSeq(hist.orig, 1, nf)
            /\ hist.outb = Reverse(SubSeq(hist.orig, n - nb + 1, n))
            /\ (op \in {"iter_next", "iter_next_back"} /\ ret = NoneT) =>
                  (nf + nb = n /\ n = len)
            /\ ub = {}

\* C13: in every state of the list, what an Iter or IterMut has yielded with
\* next is the front of the list's payloads in next order, what it has
\* yielded with next_back is the back of them in reverse order, the two
\* never overlap, and when it returns None it has yielded len elements,
\* every element once.
C13_TraversalOrder == TraversalInv

CountStep ==
    /\ op' \in {"iter", "into_iter"} =>
          (iter_len' = len /\ (dummy = NoneP => iter_len' = 0))
    /\ op' \in {"iter_next", "iter_next_back", "into_next", "into_next_back"} =>
          /\ iter_len > 0 => (ret' # NoneT /\ iter_len' = iter_len - 1)
          /\ iter_len = 0 => (ret' = NoneT /\ iter_len' = 0)
          /\ size_hint' = <<iter_len', iter_len'>>

\* C14: the count an Iter, IterMut or IntoIter reports (len() and both
\* bounds of size_hint()) is the list's length when it is made, 0 over a list
\* never initialized; every next or next_back returns an element and lowers
\* the count by one while it is positive, and returns None once it is 0, so
\* that the count is the number of elements still to come.
C14_ExactRemaining == [][CountStep]_vars

\* next_back has yielded an element after next has, and one is left.
C14_Witness ==
    /\ op = "iter_next_back" /\ ret # NoneT
    /\ Len(hist.outf) = 1 /\ iter_len = 1

\* The elements of q that are in P, in the order of q.
Keep(q, P) == SelectSeq(q, LAMBDA x : x \in P)

\* A DrainFilter has just returned None.
DrainDone ==
    /\ iter.kind = "drain"
    /\ op \in {"drain_next", "drain_next_back"} /\ ret = NoneT

\* C15: when a DrainFilter returns None, what it has yielded, if with next
\* only, is the elements the predicate holds for in list order, and if with
\* next_back only, the same in reverse order; the list then holds the
\* elements the predicate does not hold for, in their order, and len is
\* their number.
C15_DrainFilter ==
    DrainDone =>
        /\ hist.outb = <<>> => hist.outf = Keep(hist.orig, iter.pred)
        /\ hist.outf = <<>> => hist.outb = Reverse(Keep(hist.orig, iter.pred))
        /\ Contents = Keep(hist.orig, Items \ iter.pred)
        /\ len = Len(Contents)

\* A drain by next has taken the middle one of three elements and left the
\* two around it.
C15_Witness ==
    /\ DrainDone /\ op = "drain_next"
    /\ Len(hist.orig) = 3 /\ hist.outb = <<>>
    /\ hist.outf = <<hist.orig[2]>>

\* The list with sentinel d and length l in heap h is a ring: the walk along
\* next from d meets l nodes and is back at d, and the walk along prev meets
\* the same nodes in reverse.
RingOf(h, d, l) ==
    /\ Alive(h, d)
    /\ \A f \in {ForwardOf(h, d)} :
          /\ Len(f) = l
          /\ IF f = <<>> THEN h[d].next = d ELSE h[f[Len(f)]].next = d
          /\ BackwardOf(h, d) = Reverse(f)

SliceStep ==
    (op' \in {"slice_off_as_list", "remove_current_as_list"} /\ ret' = Unit) =>
        \A f \in {Forward}, f2 \in {Forward'}, b2 \in {ForwardOf(heap', other'.dummy)} :
            \A k \in {Len(b2)} :
                /\ k >= 1
                /\ len' = len - k /\ other'.len = k
                /\ dummy' = dummy
                /\ ~Alive(heap, other'.dummy) /\ other'.dummy # dummy
                /\ \E i \in 1 .. Len(f) - k + 1 :
                      /\ b2 = SubSeq(f, i, i + k - 1)
                      /\ f2 = SubSeq(f, 1, i - 1) \o SubSeq(f, i + k, Len(f))
                /\ op' = "remove_current_as_list" => b2 = <<node>>
                /\ ItemsOf(heap', f) = ItemsOf(heap, f)
                /\ RingLinks'
                /\ RingOf(heap', dummy', len')
                /\ RingOf(heap', other'.dummy, other'.len)
                /\ ub' = {}

\* C16: slice_off_as_list on a run of k nodes of a list of length n, and
\* remove_current_as_list on one node, leave the list with len n - k and
\* return a list with a sentinel newly allocated and len k; both are rings
\* with consistent links; the new list holds the nodes of the run and the
\* old one the others, each in the order they had, with their payloads.
C16_SpliceAsList == [][SliceStep]_vars

\* remove_current_as_list has taken the last of two elements into a list of
\* its own and left the cursor at the sentinel.
C16_Witness ==
    /\ op = "remove_current_as_list" /\ ret = Unit
    /\ live /\ node = dummy
    /\ len = 1 /\ other.len = 1

FifoInv ==
    /\ inner.some <=> Queue # <<>>
    /\ inner.some =>
          \A q \in {QueueNodes} :
              /\ inner.tail = q[Len(q)]
              /\ nodes[inner.tail].next = NoneP
    /\ \A a \in Addr : nodes[a].alive => \E i \in 1 .. Len(QueueNodes) : QueueNodes[i] = a
    /\ ub = {}

FifoStep ==
    /\ op' = "fifth_push" =>
          \A q \in {Queue}, q2 \in {Queue'} : q2 = Append(q, arg')
    /\ op' = "fifth_pop" =>
          \A q \in {Queue}, q2 \in {Queue'} :
              IF q = <<>> THEN ret' = NoneT /\ q2 = <<>>
              ELSE ret' = Head(q) /\ q2 = Tail(q)

\* C17: the fifth::List is a FIFO queue: push appends to the sequence of
\* items reachable from the head, pop returns and removes its first item and
\* returns None exactly when it is empty; the Inner is there exactly when
\* the queue is not empty, with the tail its last node, so that a queue
\* popped to empty is the new queue again.
C17_FifoQueue == [](FifoInv) /\ [][FifoStep]_vars

\* A pop between pushes: the queue holds two items and its tail was
\* allocated in a block an earlier head has left.
C17_Witness ==
    /\ op = "fifth_pop" /\ ret # NoneT
    /\ Len(Queue) = 2 /\ inner.head > inner.tail

\* Two borrows reach the same place: the same element, or one of them the
\* whole list.
Overlap(r1, r2) ==
    r1.target = r2.target \/ r1.target = WholeList \/ r2.target = WholeList

MutatingViews == {r \in refs : r.view \in {"CursorMut", "IterMut", "DrainFilter"}}

ReadOnlyViews == {r \in refs : r.view \in {"Cursor", "Iter"}}

\* C18: at most one mutating view (CursorMut, IterMut, DrainFilter) is live
\* against the list, no read-only view (Cursor, Iter) is live together with
\* a mutating view, and no two live borrows that give mutable access
\* overlap in the list or in an element.
C18_ExclusiveMutation ==
    /\ Cardinality(MutatingViews) <= 1
    /\ MutatingViews # {} => ReadOnlyViews = {}
    /\ \A r1, r2 \in refs :
         (r1 # r2 /\ Access(r1.view) = "write" /\ Access(r2.view) = "write")
             => ~Overlap(r1, r2)

DrainBudgetInv ==
    iter.kind = "drain" =>
        /\ Len(iter.seen) <= Len(hist.orig)
        /\ Len(iter.seen) + iter_len = Len(hist.orig)
        /\ \A i, j \in 1 .. Len(iter.seen) :
             iter.seen[i][1] = iter.seen[j][1] => i = j
        /\ Len(iter.seen) = iter.retained + Len(hist.outf) + Len(hist.outb)

DrainBudgetStep ==
    (op' \in {"drain_next", "drain_next_back"}
        /\ Len(iter.seen) = Len(hist.orig))
        => (ret' = NoneT /\ iter'.seen = iter.seen)

\* C21: a DrainFilter over a list of length n, consumed by any interleaving
\* of next and next_back, calls its predicate on no node twice (so on none
\* from both ends) and at most n times in all, the calls and the remaining
\* count of the RawIter adding up to n; once it has been called on every
\* node, next and next_back return None and call it no more.
C21_SharedBudget == [](DrainBudgetInv) /\ [][DrainBudgetStep]_vars

\* A drain of three or more nodes examined from both ends to the last one,
\* then asked again.
C21_Witness ==
    /\ iter.kind = "drain" /\ op \in {"drain_next", "drain_next_back"}
    /\ ret = NoneT
    /\ Len(iter.seen) = Len(hist.orig) /\ Len(hist.orig) >= 3
    /\ \E i, j \in 1 .. Len(iter.seen) : iter.seen[i][2] /\ ~iter.seen[j][2]
    /\ iter.retained >= 1 /\ Len(hist.outf) + Len(hist.outb) >= 1

\* C22 as stated: at every point of a drain the lower bound of
\* DrainFilter::size_hint is the list's len less the nodes retained so far.
C22_LowerBound ==
    iter.kind = "drain" => DrainFilter_size_hint[1] = len - iter.retained

\* C22 as the code has it: at every point of a drain the lower bound of
\* DrainFilter::size_hint is 0 and the upper bound is the list's len less
\* the nodes retained so far, which never exceeds len and is the number of
\* nodes the predicate has not been called on yet.
C22_UpperBound ==
    iter.kind = "drain" =>
        /\ DrainFilter_size_hint[1] = 0
        /\ iter.retained <= len
        /\ DrainFilter_size_hint[2] = len - iter.retained
        /\ DrainFilter_size_hint[2] = Len(hist.orig) - Len(iter.seen)

\* A drain that has retained a node and yielded one, with one still to
\* examine.
C22_Witness ==
    /\ iter.kind = "drain" /\ op \in {"drain_next", "drain_next_back"}
    /\ iter.retained >= 1 /\ Len(hist.outf) + Len(hist.outb) >= 1
    /\ DrainFilter_size_hint[2] >= 1

DrainSafeStep ==
    op' \in {"drain_next", "drain_next_back"} =>
        /\ ub' = {}
        /\ ret' # NoneT =>
             \A f \in {Forward}, f2 \in {Forward'} :
                 /\ Len(f2) = Len(f) - 1
                 /\ \E a \in Addr : Alive(heap, a) /\ ~Alive(heap', a)
                 /\ \A i \in 1 .. Len(f2) : \E j \in 1 .. Len(f) : f[j] = f2[i]
        /\ ret' = NoneT => Forward' = Forward

\* C23: a DrainFilter never reads or writes a deallocated node, whatever
\* the predicate and the interleaving of next and next_back, and after every
\* next and next_back step the ring is closed with consistent links and len
\* is the number of real nodes; a step that yields frees one node and keeps
\* the others in the ring.
C23_SafeDealloc ==
    [](iter.kind = "drain" => (ub = {} /\ RingLinks /\ RingLen /\ LenInv))
        /\ [][DrainSafeStep]_vars

\* A node yielded from the back after one was yielded from the front and one
\* was retained, with nodes left in the list.
C23_Witness ==
    /\ iter.kind = "drain" /\ op = "drain_next_back" /\ ret # NoneT
    /\ Len(hist.outf) >= 1 /\ iter.retained >= 1 /\ len >= 1

ConsumeInv ==
    (iter.kind = "into" /\ ~dropped) =>
        /\ hist.orig = hist.outf \o Contents \o Reverse(hist.outb)
        /\ len = Len(Contents) /\ iter_len = len
        /\ ub = {}

ConsumeStep ==
    /\ op' = "into_next" =>
          \A f \in {Forward}, c \in {Contents}, c2 \in {Contents'} :
              IF c = <<>> THEN ret' = NoneT /\ c2 = c /\ heap' = heap
              ELSE /\ ret' = Head(c) /\ c2 = Tail(c)
                   /\ Alive(heap, f[1]) /\ ~Alive(heap', f[1])
    /\ op' = "into_next_back" =>
          \A f \in {Forward}, c \in {Contents}, c2 \in {Contents'} :
              IF c = <<>> THEN ret' = NoneT /\ c2 = c /\ heap' = heap
              ELSE /\ ret' = c[Len(c)] /\ c2 = SubSeq(c, 1, Len(c) - 1)
                   /\ Alive(heap, f[Len(f)]) /\ ~Alive(heap', f[Len(f)])

\* C24: IntoIter::next returns and removes the first element of the list it
\* owns and next_back the last, freeing the node of the element; both
\* return None and change nothing when the list is empty; under every
\* interleaving the elements yielded from the front, those still in the
\* list and those yielded from the back (reversed) make up the original list,
\* so every element is yielded exactly once.
C24_IntoIterDeque == [](ConsumeInv) /\ [][ConsumeStep]_vars

\* A list of three or more elements consumed from both ends to the last one,
\* then asked again.
C24_Witness ==
    /\ iter.kind = "into" /\ op \in {"into_next", "into_next_back"}
    /\ ret = NoneT /\ Len(hist.orig) >= 3
    /\ Len(hist.outf) >= 1 /\ Len(hist.outb) >= 1
    /\ Len(hist.outf) + Len(hist.outb) = Len(hist.orig)
    /\ ~dropped

\* C25: in every sequence of operations on a list, clear and destruction
\* included, no node or sentinel is deallocated twice and no operation
\* reads or writes a node that has been deallocated.
C25_NoDoubleFree ==
    /\ DoubleFree \notin ub
    /\ UafRead \notin ub
    /\ UafWrite \notin ub

\* C26: whenever the cursor is on a real node, index() returns the number
\* of real nodes between the sentinel and that node along next: 0 on the
\* first element, len - 1 on the last.
C26_IndexIsPosition ==
    (live /\ ~AtGhost) => cursor_index = CursorPos - 1

PayloadStep ==
    ub' = {} =>
        \A h \in {heap}, h2 \in {heap'} :
            Cardinality(Deallocated(h, h2)) = Taken(op', ret')

\* C27: whenever an operation deallocates nodes that hold payloads -- a pop,
\* clear(), or the destruction of the list -- each of those payloads is taken
\* out of its node as a value and so dropped once, as pop_front does; none
\* is discarded with its node.
C27_PayloadsDropped == [][PayloadStep]_vars

====
